---------------------------- MODULE Spec2Model ----------------------------
(***************************************************************************)
(* The deduplication-and-aggregation pipeline of the GDELT attack map      *)
(* builders: scripts/update_attacks_2026.py, scripts/build_2025_quarters.py*)
(* scripts/build_2025_quarters_fast.py and                                 *)
(* scripts/build_2025_quarters_from_exports.py                             *)
(* (scripts/build_2025_month_from_exports.py repeats the last one).        *)
(*                                                                         *)
(* Text that the code inspects character by character (day, root code,     *)
(* place name, merge key) is a sequence of one-character strings.  Text    *)
(* that the code only tests for emptiness and equality (source URL, event  *)
(* id, event code, year) is a TLA+ string, "" being the empty text.        *)
(* Coordinates are integers (degrees); a quotient lat_sum / n is kept as   *)
(* the exact fraction in lowest terms, so floating-point rounding is       *)
(* outside the model.                                                      *)
(***************************************************************************)
EXTENDS Integers, Sequences, FiniteSets, TLC

VARIABLES
    script,     \* which of the scripts is running
    pc,         \* position of the run inside main / build_quarter
    chunks,     \* export files (or API pages) of the run not yet fetched
    row,        \* the loop variable: the row (event) being processed, <<>> if none
    agg,        \* the dict agg, as the list of its values in insertion order
    hard,       \* the dict hard of update_attacks_2026 (second pass)
    features,   \* the list features
    outfile,    \* content of the output file on disk, <<"absent">> before any write
    out_ids,    \* GlobalEventIDs merged into the points of the file on disk
    runs,       \* number of runs of the script started so far
    accepted,   \* history: the records of this run that passed every filter, in order
    nl_in,      \* argument of a direct call of norm_loc
    nl_out,     \* result of that call, <<"pending">> before it returns
    quarter,    \* main of the 2025 scripts: index of the quarter being built
    written,    \* the output files this process has written, by quarter index, in order
    pages,      \* build_quarter: pages
    start_record, \* build_quarter: start_record
    attempt,    \* fetch_json: the loop variable i, 0 outside a call
    sleeps,     \* fetch_json: the waits of the current call, in tenths of a second
    err,        \* the exception that ended the process, "" if none
    nread       \* events of the current page already iterated

\* the variables of the page loop and of fetch_json
pagevars == <<pages, start_record, attempt, sleeps, err, nread>>

vars == <<script, pc, chunks, row, agg, hard, features, outfile, out_ids,
          runs, accepted, nl_in, nl_out, quarter, written, pagevars>>

-----------------------------------------------------------------------------
(* Bounds of the model *)

MaxRows == 3        \* accepted records per run
MaxChunks == 2      \* export files / API pages per run
MaxCapRows == 9     \* accepted records per run in the source-cap scenario
MaxRuns == 2        \* runs of update_attacks_2026 in the re-run scenario
MaxLen == 3         \* length of the strings given to norm_loc directly
MaxPages == 4       \* non-empty pages the API can serve for one quarter
MaxPageRows == 1    \* events iterated per page (at most MAX_RECORDS in a real page)
QuartersPageLimit == 1  \* stands for the 5000 of "if pages > 5000" (build_2025_quarters)
FastPageLimit == 2      \* stands for the 20000 of "if pages > 20000" (build_2025_quarters_fast)

(* Program constants *)

MAX_SOURCES_PER_EVENT == 8
MAX_RECORDS == 250          \* MAX_RECORDS, MAX_RECORDS_PER_CALL
MAX_RETRIES == 6
SLEEP_SEC_TENTHS == 6       \* SLEEP_SEC = 0.6 of build_2025_quarters_fast, in tenths of a second
NumQuarters == 4            \* len(QUARTERS)

-----------------------------------------------------------------------------
(* Characters and strings *)

\* the elements of a sequence
Range(s) == {s[i] : i \in 1..Len(s)}

Chars(s) == Range(s)

Digits == {"0", "1", "2", "3", "4", "5", "6", "7", "8", "9"}

\* str.isspace for the characters of the model
IsSpace(c) == c = " "

\* ord(c): Python orders strings by code point
Ord(c) ==
    CASE c = " " -> 32
      [] c = "-" -> 45
      [] c \in Digits -> 48 + (CHOOSE d \in 0..9 : ToString(d) = c)
      [] c = "A" -> 65
      [] c = "U" -> 85
      [] c = "a" -> 97
      [] c = "b" -> 98
      [] c = "k" -> 107
      [] c = "n" -> 110
      [] c = "o" -> 111
      [] c = "u" -> 117
      [] c = "w" -> 119
      [] c = "x" -> 120
      [] c = "|" -> 124
      [] OTHER -> 127

\* s < t for Python strings (lexicographic by code point)
RECURSIVE StrLess(_, _)
StrLess(s, t) ==
    IF t = <<>> THEN FALSE
    ELSE IF s = <<>> THEN TRUE
    ELSE IF Ord(Head(s)) # Ord(Head(t)) THEN Ord(Head(s)) < Ord(Head(t))
    ELSE StrLess(Tail(s), Tail(t))

\* str.lower, one character
LowerChar(c) ==
    CASE c = "A" -> "a"
      [] c = "U" -> "u"
      [] OTHER -> c

\* str.lower
Lower(s) == [i \in 1..Len(s) |-> LowerChar(s[i])]

\* str.lstrip / str.rstrip / str.strip
RECURSIVE LStrip(_)
LStrip(s) ==
    IF s # <<>> /\ IsSpace(Head(s)) THEN LStrip(Tail(s)) ELSE s

RECURSIVE RStrip(_)
RStrip(s) ==
    IF s # <<>> /\ IsSpace(s[Len(s)]) THEN RStrip(SubSeq(s, 1, Len(s) - 1)) ELSE s

Strip(s) == RStrip(LStrip(s))

\* str.split(): the maximal runs of non-space characters, in order
RECURSIVE SplitWords(_, _)
SplitWords(s, cur) ==
    IF s = <<>> THEN (IF cur = <<>> THEN <<>> ELSE <<cur>>)
    ELSE IF IsSpace(Head(s))
         THEN (IF cur = <<>> THEN <<>> ELSE <<cur>>) \o SplitWords(Tail(s), <<>>)
         ELSE SplitWords(Tail(s), Append(cur, Head(s)))

Split(s) == SplitWords(s, <<>>)

\* " ".join(words)
RECURSIVE JoinSpace(_)
JoinSpace(words) ==
    IF words = <<>> THEN <<>>
    ELSE IF Len(words) = 1 THEN words[1]
    ELSE words[1] \o <<" ">> \o JoinSpace(Tail(words))

Unknown == <<"u", "n", "k", "n", "o", "w", "n">>

\* norm_loc
norm_loc(s) ==
    IF s = <<>> THEN Unknown
    ELSE JoinSpace(Split(Lower(Strip(s))))

-----------------------------------------------------------------------------
(* The scripts and their tables *)

Update == "update_attacks_2026"
Quarters == "build_2025_quarters"
Fast == "build_2025_quarters_fast"
Exports == "build_2025_quarters_from_exports"

Scripts == {Update, Quarters, Fast, Exports}

\* the scripts that read the tab-separated export files (the others page the API)
IsTsv(sc) == sc \in {Update, Exports}

\* the year a row of an export file must carry
YearOf(sc) == IF sc = Update THEN "2026" ELSE "2025"

\* ROOT_CODE_LABEL / ROOT_LABEL
ROOT_CODE_LABEL ==
    (<<"1", "8">> :> <<"a", "s", "s", "a", "u", "l", "t">>)
    @@ (<<"1", "9">> :> <<"f", "i", "g", "h", "t">>)
    @@ (<<"2", "0">> :> <<"m", "a", "s", "s", "_", "v", "i", "o", "l", "e", "n", "c", "e">>)

\* root in ROOT_CODE_LABEL
InTable(root) == root \in DOMAIN ROOT_CODE_LABEL

None == <<>>

\* the text of a coordinate field: the text of the number v, or text float() rejects
Num(v) == [numeric |-> TRUE, v |-> v]
NotNum == [numeric |-> FALSE, v |-> 0]

\* safe_float: <<v>> for the text of a number, None for any other text
safe_float(x) == IF x.numeric THEN <<x.v>> ELSE None

\* yyyymmdd_to_iso: build_2025_quarters also requires digits, the others only 8 characters
yyyymmdd_to_iso(sc, s) ==
    IF Len(s) = 8 /\ (sc = Quarters => Chars(s) \subseteq Digits)
    THEN SubSeq(s, 1, 4) \o <<"-">> \o SubSeq(s, 5, 6) \o <<"-">> \o SubSeq(s, 7, 8)
    ELSE <<>>

\* the fields one row (event) is read into, stripped and parsed
Fields(sc, r) ==
    [ gid  |-> r.gid,
      day  |-> Strip(r.day),
      year |-> r.year,
      code |-> r.code,
      root |-> Strip(r.root),
      loc  |-> Strip(r.fullname),
      lat  |-> safe_float(r.lat),
      lon  |-> safe_float(r.lon),
      src  |-> r.url ]

\* the filters of the row loop: TRUE when no continue is taken
Accept(sc, r) ==
    LET f == Fields(sc, r) IN
    /\ IsTsv(sc) => (r.len_ok /\ f.year = YearOf(sc))
    /\ InTable(f.root)
    /\ f.lat # None /\ f.lon # None
    /\ yyyymmdd_to_iso(sc, f.day) # <<>>

\* what the loop body holds of an accepted row when it reaches the merge
Record(sc, r) ==
    LET f == Fields(sc, r) IN
    [ date  |-> yyyymmdd_to_iso(sc, f.day),
      root  |-> f.root,
      place |-> f.loc,
      lat   |-> f.lat[1],
      lon   |-> f.lon[1],
      url   |-> f.src,
      gid   |-> f.gid,
      code  |-> f.code ]

\* the category part of the merge key: the label in build_2025_quarters, the root code elsewhere
KeyCategory(sc, root) == IF sc = Quarters THEN ROOT_CODE_LABEL[root] ELSE root

\* the key built from the place name as reported, not normalized
MergeKey_RawPlace(sc, rec) ==
    rec.date \o <<"|">> \o KeyCategory(sc, rec.root) \o <<"|">> \o rec.place

\* key = f"{date_iso}|{root}|{loc_norm}"
MergeKey(sc, rec) ==
    rec.date \o <<"|">> \o KeyCategory(sc, rec.root) \o <<"|">> \o norm_loc(rec.place)

\* the scripts whose merge branch adopts a place name over "unknown"
UpdatesLocation(sc) == sc \in {Update, Quarters}

\* the scripts whose accumulators carry event_codes and gdelt_ids
TracksIds(sc) == sc \in {Update, Quarters}

\* add_unique with the cap tested by <= : one entry too many is let in
add_unique_OffByOne(lst, url) ==
    IF url = "" THEN lst
    ELSE IF (\A i \in 1..Len(lst) : lst[i] # url) /\ Len(lst) <= MAX_SOURCES_PER_EVENT
         THEN Append(lst, url)
         ELSE lst

\* add_unique
add_unique(lst, url) ==
    IF url = "" THEN lst
    ELSE IF (\A i \in 1..Len(lst) : lst[i] # url) /\ Len(lst) < MAX_SOURCES_PER_EVENT
         THEN Append(lst, url)
         ELSE lst

\* the accumulator created with the label of code 18 whatever the root code
NewAcc_FixedLabel(sc, rec) ==
    [ key             |-> MergeKey(sc, rec),
      date            |-> rec.date,
      attack_type     |-> ROOT_CODE_LABEL[<<"1", "8">>],
      event_root_code |-> rec.root,
      location        |-> IF rec.place # <<>> THEN rec.place ELSE Unknown,
      loc_norm        |-> norm_loc(rec.place),
      lat_sum         |-> rec.lat,
      lon_sum         |-> rec.lon,
      n               |-> 1,
      event_codes     |-> IF TracksIds(sc) /\ rec.code # "" THEN {rec.code} ELSE {},
      gdelt_ids       |-> IF TracksIds(sc) /\ rec.gid # "" THEN {rec.gid} ELSE {},
      sources         |-> IF rec.url # "" THEN <<rec.url>> ELSE <<>> ]

\* agg[key] = {...}: the accumulator a first record of a key creates
\* (event_codes and gdelt_ids stay empty in the scripts that do not carry them)
NewAcc(sc, rec) ==
    [ key             |-> MergeKey(sc, rec),
      date            |-> rec.date,
      attack_type     |-> ROOT_CODE_LABEL[rec.root],
      event_root_code |-> rec.root,
      location        |-> IF rec.place # <<>> THEN rec.place ELSE Unknown,
      loc_norm        |-> norm_loc(rec.place),
      lat_sum         |-> rec.lat,
      lon_sum         |-> rec.lon,
      n               |-> 1,
      event_codes     |-> IF TracksIds(sc) /\ rec.code # "" THEN {rec.code} ELSE {},
      gdelt_ids       |-> IF TracksIds(sc) /\ rec.gid # "" THEN {rec.gid} ELSE {},
      sources         |-> IF rec.url # "" THEN <<rec.url>> ELSE <<>> ]

\* the merge with the coordinate sums assigned (=) instead of accumulated (+=)
MergeInto_Overwrite(sc, ev, rec) ==
    [ ev EXCEPT
        !.lat_sum = rec.lat,
        !.lon_sum = rec.lon,
        !.n = @ + 1,
        !.location = IF UpdatesLocation(sc) /\ rec.place # <<>> /\ @ = Unknown
                     THEN rec.place ELSE @,
        !.event_codes = IF TracksIds(sc) /\ rec.code # "" THEN @ \cup {rec.code} ELSE @,
        !.gdelt_ids = IF TracksIds(sc) /\ rec.gid # "" THEN @ \cup {rec.gid} ELSE @,
        !.sources = add_unique(@, rec.url) ]

\* the merge that adds the coordinates but does not count the record
MergeInto_NoCount(sc, ev, rec) ==
    [ ev EXCEPT
        !.lat_sum = @ + rec.lat,
        !.lon_sum = @ + rec.lon,
        !.location = IF UpdatesLocation(sc) /\ rec.place # <<>> /\ @ = Unknown
                     THEN rec.place ELSE @,
        !.event_codes = IF TracksIds(sc) /\ rec.code # "" THEN @ \cup {rec.code} ELSE @,
        !.gdelt_ids = IF TracksIds(sc) /\ rec.gid # "" THEN @ \cup {rec.gid} ELSE @,
        !.sources = add_unique(@, rec.url) ]

\* the else branch: a later record of the key is merged into ev
MergeInto(sc, ev, rec) ==
    [ ev EXCEPT
        !.lat_sum = @ + rec.lat,
        !.lon_sum = @ + rec.lon,
        !.n = @ + 1,
        !.location = IF UpdatesLocation(sc) /\ rec.place # <<>> /\ @ = Unknown
                     THEN rec.place ELSE @,
        !.event_codes = IF TracksIds(sc) /\ rec.code # "" THEN @ \cup {rec.code} ELSE @,
        !.gdelt_ids = IF TracksIds(sc) /\ rec.gid # "" THEN @ \cup {rec.gid} ELSE @,
        !.sources = add_unique(@, rec.url) ]

\* positions of key k in a dict kept as the list of its values
Slot(d, k) == {i \in 1..Len(d) : d[i].key = k}

\* if key not in agg: ... else: ...
AggStep(sc, d, rec) ==
    LET k == MergeKey(sc, rec) IN
    IF Slot(d, k) = {} THEN Append(d, NewAcc(sc, rec))
    ELSE LET i == CHOOSE j \in Slot(d, k) : TRUE IN
         [d EXCEPT ![i] = MergeInto(sc, d[i], rec)]

-----------------------------------------------------------------------------
(* Second pass, emission, ordering *)

\* the second key without the normalized place
Key2_NoPlace(ev) == ev.date \o <<"|">> \o ev.attack_type

\* key2 = f"{ev['date']}|{ev['attack_type']}|{ev['loc_norm']}"
Key2(ev) == ev.date \o <<"|">> \o ev.attack_type \o <<"|">> \o ev.loc_norm

\* the else branch of the second pass: ev is merged into m
MergeAcc(m, ev) ==
    LET RECURSIVE AddAll(_, _)
        AddAll(lst, us) ==
            IF us = <<>> THEN lst ELSE AddAll(add_unique(lst, Head(us)), Tail(us))
    IN [ m EXCEPT
           !.lat_sum = @ + ev.lat_sum,
           !.lon_sum = @ + ev.lon_sum,
           !.n = @ + ev.n,
           !.event_codes = @ \cup ev.event_codes,
           !.gdelt_ids = @ \cup ev.gdelt_ids,
           !.sources = AddAll(@, ev.sources) ]

\* the second pass over agg.values(); hard is keyed by key2, its values kept in insertion order
RECURSIVE HardFrom(_, _)
HardFrom(h, evs) ==
    IF evs = <<>> THEN h
    ELSE LET ev == Head(evs)
             at == {i \in 1..Len(h) : Key2(h[i]) = Key2(ev)}
         IN IF at = {} THEN HardFrom(Append(h, ev), Tail(evs))
            ELSE LET i == CHOOSE j \in at : TRUE IN
                 HardFrom([h EXCEPT ![i] = MergeAcc(h[i], ev)], Tail(evs))

HardDedupe(d) == HardFrom(<<>>, d)

\* hard[key2] = ev shares the object with agg: the first value of each key2 in agg
\* is the merged one after the pass
AggAfterHard(d) ==
    LET h == HardDedupe(d) IN
    [ i \in 1..Len(d) |->
        IF \A j \in 1..(i - 1) : Key2(d[j]) # Key2(d[i])
        THEN h[CHOOSE j \in 1..Len(h) : Key2(h[j]) = Key2(d[i])]
        ELSE d[i] ]

Abs(x) == IF x < 0 THEN 0 - x ELSE x

RECURSIVE Gcd(_, _)
Gcd(a, b) == IF b = 0 THEN a ELSE Gcd(b, a % b)

Max(a, b) == IF a >= b THEN a ELSE b

\* the quotient a / b of the code (b >= 1), as the exact fraction <<numerator, denominator>>
Div(a, b) ==
    LET g == Gcd(Abs(a), b) IN <<a \div g, b \div g>>

\* features.append({...})
\* (event_codes and gdelt_ids_count are written by the scripts that carry them)
Feature(ev) ==
    [ coordinates     |-> << Div(ev.lon_sum, Max(1, ev.n)), Div(ev.lat_sum, Max(1, ev.n)) >>,
      date            |-> ev.date,
      location        |-> ev.location,
      attack_type     |-> ev.attack_type,
      event_root_code |-> ev.event_root_code,
      event_codes     |-> ev.event_codes,
      gdelt_ids_count |-> Cardinality(ev.gdelt_ids),
      sources_count   |-> Len(ev.sources),
      sources         |-> ev.sources ]

MakeFeatures(d) == [i \in 1..Len(d) |-> Feature(d[i])]

\* the sort key reduced to the date
KeyLess_DateOnly(f, g) == StrLess(f.date, g.date)

\* the sort key (date, sources_count) of f is below that of g
KeyLess(f, g) ==
    \/ StrLess(f.date, g.date)
    \/ f.date = g.date /\ f.sources_count < g.sources_count

\* list.sort(key=..., reverse=True): descending, equal keys keep their order
RECURSIVE InsertDesc(_, _)
InsertDesc(f, fs) ==
    IF fs = <<>> THEN <<f>>
    ELSE IF KeyLess(Head(fs), f) THEN <<f>> \o fs
    ELSE <<Head(fs)>> \o InsertDesc(f, Tail(fs))

RECURSIVE SortFrom(_, _)
SortFrom(done, fs) ==
    IF fs = <<>> THEN done ELSE SortFrom(InsertDesc(Head(fs), done), Tail(fs))

SortFeatures(fs) == SortFrom(<<>>, fs)

\* the accumulators the features are built from: hard.values() in update_attacks_2026,
\* agg.values() in the other scripts
TwoStage(sc) == sc = Update

Final(sc, d) == IF TwoStage(sc) THEN HardDedupe(d) ELSE d

\* the features a run writes after aggregating the records recs in that order
RECURSIVE AggAll(_, _, _)
AggAll(sc, d, recs) ==
    IF recs = <<>> THEN d ELSE AggAll(sc, AggStep(sc, d, Head(recs)), Tail(recs))

EmitAll(sc, recs) == SortFeatures(MakeFeatures(Final(sc, AggAll(sc, <<>>, recs))))

RECURSIVE UnionIds(_)
UnionIds(d) == IF d = <<>> THEN {} ELSE Head(d).gdelt_ids \cup UnionIds(Tail(d))

-----------------------------------------------------------------------------
(* Inputs: the rows (events) a feed may deliver *)

D1 == <<"2", "0", "2", "6", "0", "1", "0", "5">>
D2 == <<"2", "0", "2", "6", "0", "1", "0", "6">>
DShort == <<"2", "0", "2", "6", "0", "1", "0">>
DAlpha == <<"2", "0", "2", "6", "0", "1", "0", "x">>
D14 == <<"2", "0", "2", "6", "0", "1", "0", "5", "1", "2", "0", "0", "0", "0">>

R18 == <<"1", "8">>
R19 == <<"1", "9">>
R17 == <<"1", "7">>

BaseRow(sc) ==
    [ len_ok   |-> TRUE,
      gid      |-> "g1",
      day      |-> D1,
      year     |-> YearOf(sc),
      code     |-> "180",
      root     |-> R18,
      fullname |-> <<"A", " ", "a">>,
      lat      |-> Num(10),
      lon      |-> Num(20),
      url      |-> "u1" ]

\* rows of the general scenario: the base row and rows that differ from it in a few fields
Rows(sc) ==
    LET b == BaseRow(sc) IN
    { b,
      [b EXCEPT !.fullname = <<" ", "a", " ", " ", "A">>, !.lat = Num(31), !.lon = Num(0 - 40),
                !.url = "u2", !.gid = "g2"],
      [b EXCEPT !.fullname = <<" ">>, !.url = "", !.code = ""],
      [b EXCEPT !.fullname = Unknown],
      [b EXCEPT !.fullname = <<"U", "n", "k", "n", "o", "w", "n">>, !.url = "u2", !.gid = ""],
      [b EXCEPT !.day = D2, !.root = R19, !.code = "190"],
      [b EXCEPT !.lat = Num(95), !.lon = Num(200)],
      [b EXCEPT !.root = R17],
      [b EXCEPT !.lat = NotNum],
      [b EXCEPT !.lon = NotNum],
      [b EXCEPT !.day = DShort],
      [b EXCEPT !.day = DAlpha],
      [b EXCEPT !.day = D14],
      [b EXCEPT !.year = "2024"],
      [b EXCEPT !.len_ok = FALSE] }

\* the i-th source URL of the source-cap scenario
Url(i) == "u" \o ToString(i)

\* distinct non-empty URLs among records, in first-seen order
RECURSIVE FirstSeen(_, _)
FirstSeen(seen, recs) ==
    IF recs = <<>> THEN seen
    ELSE FirstSeen(IF Head(recs).url = "" \/ (\E i \in 1..Len(seen) : seen[i] = Head(recs).url)
                   THEN seen ELSE Append(seen, Head(recs).url),
                   Tail(recs))

\* rows of the source-cap scenario: one key; the URL is empty, the first URL again,
\* or a URL not seen before (URLs are numbered in the order they first appear)
CapRows(sc, recs) ==
    { [BaseRow(sc) EXCEPT !.url = u] :
        u \in {"", Url(1), Url(Len(FirstSeen(<<>>, recs)) + 1)} }

\* rows of the re-run scenario: events A, B, C of three different points
RerunRows(sc) ==
    LET b == BaseRow(sc) IN
    { [b EXCEPT !.gid = "A"],
      [b EXCEPT !.gid = "B", !.fullname = <<"b">>, !.url = "u2"],
      [b EXCEPT !.gid = "C", !.day = D2] }

\* strings over a small alphabet, up to length n
NormAlphabet == {"A", "a", " ", "b"}

StringsUpTo(n) == UNION {[1..k -> NormAlphabet] : k \in 0..n}

-----------------------------------------------------------------------------
(* The runs *)

NoFile == [exists |-> FALSE, features |-> <<>>]

NotCalled == [done |-> FALSE, val |-> <<>>]

\* the state when the process of script sc starts, no output written yet
InitRun(sc) ==
    /\ script = sc
    /\ pc = "start"
    /\ chunks = 0
    /\ row = <<>>
    /\ agg = <<>>
    /\ hard = <<>>
    /\ features = <<>>
    /\ outfile = NoFile
    /\ out_ids = {}
    /\ runs = 1
    /\ accepted = <<>>
    /\ nl_in = <<>>
    /\ nl_out = NotCalled
    /\ quarter = 1
    /\ written = <<>>
    /\ pages = 0
    /\ start_record = 1
    /\ attempt = 0
    /\ sleeps = <<>>
    /\ err = ""
    /\ nread = 0

\* update_attacks_2026: no export file lies in the look-back window; an empty
\* FeatureCollection is written and main returns
NoRecent ==
    /\ pc = "start"
    /\ script = Update
    /\ pc' = "done"
    /\ outfile' = [exists |-> TRUE, features |-> <<>>]
    /\ out_ids' = {}
    /\ UNCHANGED <<script, chunks, row, agg, hard, features, runs, accepted, nl_in, nl_out>>
    /\ written' = Append(written, quarter)
    /\ UNCHANGED <<quarter, pagevars>>

\* the chunks of the run are fixed: n export files selected from the master list,
\* or n pages of events that the API serves before an empty page
ListChunks(n) ==
    /\ pc = "start"
    /\ script = Update => n > 0
    /\ chunks' = n
    /\ pc' = "fetch"
    /\ UNCHANGED <<script, row, agg, hard, features, outfile, out_ids, runs, accepted,
                   nl_in, nl_out>>
    /\ UNCHANGED <<quarter, written, pagevars>>

\* the next export file is downloaded and unzipped, or the next page holds events
FetchOk ==
    /\ pc = "fetch"
    /\ chunks > 0
    /\ pc' = "rows"
    /\ UNCHANGED <<script, chunks, row, agg, hard, features, outfile, out_ids, runs,
                   accepted, nl_in, nl_out>>
    /\ UNCHANGED <<quarter, written, pagevars>>

\* the download fails: the export scripts warn and continue with the next file
FetchSkip ==
    /\ pc = "fetch"
    /\ chunks > 0
    /\ IsTsv(script)
    /\ chunks' = chunks - 1
    /\ UNCHANGED <<script, pc, row, agg, hard, features, outfile, out_ids, runs,
                   accepted, nl_in, nl_out>>
    /\ UNCHANGED <<quarter, written, pagevars>>

\* the request fails: http_get_json raises, fetch_json raises RuntimeError once its
\* attempts are used up; build_quarter does not catch either
FetchRaise ==
    /\ pc = "fetch"
    /\ ~IsTsv(script)
    /\ pc' = "crashed"
    /\ UNCHANGED <<script, chunks, row, agg, hard, features, outfile, out_ids, runs,
                   accepted, nl_in, nl_out>>
    /\ UNCHANGED <<quarter, written, pagevars>>

\* for row in reader / for e in events: the loop takes the next row
ReadRow(r) ==
    /\ pc = "rows"
    /\ row' = <<r>>
    /\ pc' = "row"
    /\ UNCHANGED <<script, chunks, agg, hard, features, outfile, out_ids, runs,
                   accepted, nl_in, nl_out>>
    /\ UNCHANGED <<quarter, written, pagevars>>

\* the loop body for the row: the filters, then the merge into agg
\* (the loop variable is dead afterwards and is cleared)
ProcessRow ==
    /\ pc = "row"
    /\ IF Accept(script, row[1])
       THEN /\ agg' = AggStep(script, agg, Record(script, row[1]))
            /\ accepted' = Append(accepted, Record(script, row[1]))
       ELSE UNCHANGED <<agg, accepted>>
    /\ row' = <<>>
    /\ pc' = "rows"
    /\ UNCHANGED <<script, chunks, hard, features, outfile, out_ids, runs, nl_in, nl_out>>
    /\ UNCHANGED <<quarter, written, pagevars>>

\* the rows of the chunk are exhausted
EndChunk ==
    /\ pc = "rows"
    /\ chunks' = chunks - 1
    /\ pc' = "fetch"
    /\ UNCHANGED <<script, row, agg, hard, features, outfile, out_ids, runs, accepted,
                   nl_in, nl_out>>
    /\ UNCHANGED <<quarter, written, pagevars>>

\* no file is left, or the page fetched holds no events: the loop ends
EndChunks ==
    /\ pc = "fetch"
    /\ chunks = 0
    /\ pc' = IF TwoStage(script) THEN "hard" ELSE "emit"
    /\ UNCHANGED <<script, chunks, row, agg, hard, features, outfile, out_ids, runs,
                   accepted, nl_in, nl_out>>
    /\ UNCHANGED <<quarter, written, pagevars>>

\* update_attacks_2026: the second (hard) dedupe pass
SecondPass ==
    /\ pc = "hard"
    /\ hard' = HardDedupe(agg)
    /\ agg' = AggAfterHard(agg)
    /\ pc' = "emit"
    /\ UNCHANGED <<script, chunks, row, features, outfile, out_ids, runs, accepted,
                   nl_in, nl_out>>
    /\ UNCHANGED <<quarter, written, pagevars>>

\* the features are built, sorted and written
Emit ==
    /\ pc = "emit"
    /\ LET d == IF TwoStage(script) THEN hard ELSE agg IN
       /\ features' = SortFeatures(MakeFeatures(d))
       /\ out_ids' = UnionIds(d)
    /\ outfile' = [exists |-> TRUE, features |-> features']
    /\ pc' = "done"
    /\ UNCHANGED <<script, chunks, row, agg, hard, runs, accepted, nl_in, nl_out>>
    /\ written' = Append(written, quarter)
    /\ UNCHANGED <<quarter, pagevars>>

\* the script is started again (the scheduled workflow); only the file on disk survives
NextRun ==
    /\ pc = "done"
    /\ runs < MaxRuns
    /\ runs' = runs + 1
    /\ pc' = "start"
    /\ chunks' = 0
    /\ row' = <<>>
    /\ agg' = <<>>
    /\ hard' = <<>>
    /\ features' = <<>>
    /\ accepted' = <<>>
    /\ UNCHANGED <<script, outfile, out_ids, nl_in, nl_out>>
    /\ written' = <<>>
    /\ UNCHANGED <<quarter, pagevars>>

\* a direct call of norm_loc on nl_in
CallNormLoc ==
    /\ pc = "norm"
    /\ ~nl_out.done
    /\ nl_out' = [done |-> TRUE, val |-> norm_loc(nl_in)]
    /\ UNCHANGED <<script, pc, chunks, row, agg, hard, features, outfile, out_ids, runs,
                   accepted, nl_in>>
    /\ UNCHANGED <<quarter, written, pagevars>>

\* the result is normalized again
CallNormLocAgain ==
    /\ pc = "norm"
    /\ nl_out.done
    /\ nl_in # nl_out.val
    /\ nl_in' = nl_out.val
    /\ nl_out' = NotCalled
    /\ UNCHANGED <<script, pc, chunks, row, agg, hard, features, outfile, out_ids, runs,
                   accepted>>
    /\ UNCHANGED <<quarter, written, pagevars>>

-----------------------------------------------------------------------------
(* Specifications *)

\* one run of any of the scripts over the general rows
Init == \E sc \in Scripts : InitRun(sc)

Next ==
    \/ NoRecent
    \/ \E n \in 0..MaxChunks : ListChunks(n)
    \/ FetchOk
    \/ FetchSkip
    \/ FetchRaise
    \/ (Len(accepted) < MaxRows /\ \E r \in Rows(script) : ReadRow(r))
    \/ ProcessRow
    \/ EndChunk
    \/ EndChunks
    \/ SecondPass
    \/ Emit

Spec == Init /\ [][Next]_vars

\* one run of update_attacks_2026 over one export file of rows of a single key
InitCap == InitRun(Update)

NextCap ==
    \/ ListChunks(1)
    \/ FetchOk
    \/ (Len(accepted) < MaxCapRows /\ \E r \in CapRows(script, accepted) : ReadRow(r))
    \/ ProcessRow
    \/ EndChunk
    \/ EndChunks
    \/ SecondPass
    \/ Emit

SpecCap == InitCap /\ [][NextCap]_vars

\* update_attacks_2026 run repeatedly against the same output file
InitRerun == InitRun(Update)

NextRerun ==
    \/ NoRecent
    \/ ListChunks(1)
    \/ FetchOk
    \/ FetchSkip
    \/ (Len(accepted) < MaxRows /\ \E r \in RerunRows(script) : ReadRow(r))
    \/ ProcessRow
    \/ EndChunk
    \/ EndChunks
    \/ SecondPass
    \/ Emit
    \/ NextRun

SpecRerun == InitRerun /\ [][NextRerun]_vars

\* norm_loc called on arbitrary strings
InitNorm ==
    /\ script = Update
    /\ pc = "norm"
    /\ chunks = 0
    /\ row = <<>>
    /\ agg = <<>>
    /\ hard = <<>>
    /\ features = <<>>
    /\ outfile = NoFile
    /\ out_ids = {}
    /\ runs = 1
    /\ accepted = <<>>
    /\ nl_in \in StringsUpTo(MaxLen)
    /\ nl_out = NotCalled
    /\ quarter = 1
    /\ written = <<>>
    /\ pages = 0
    /\ start_record = 1
    /\ attempt = 0
    /\ sleeps = <<>>
    /\ err = ""
    /\ nread = 0

NextNorm ==
    \/ CallNormLoc
    \/ CallNormLocAgain

SpecNorm == InitNorm /\ [][NextNorm]_vars

-----------------------------------------------------------------------------
(* The page loop of the API scripts, fetch_json and the quarter loop of main *)

ApiScripts == {Quarters, Fast}

\* the literal of the guard "if pages > ...: break" (5000 and 20000 in the code)
PageLimit(sc) == IF sc = Quarters THEN QuartersPageLimit ELSE FastPageLimit

\* the guard tested before the page is counted out: one page fewer is fetched
PageGuard_AtLimit(sc, p) == p >= PageLimit(sc)

\* if pages > 5000: break   /   if pages > 20000: break
PageGuard(sc, p) == p > PageLimit(sc)

\* the same wait after every failed attempt
Backoff_Flat(i) == SLEEP_SEC_TENTHS

\* time.sleep(SLEEP_SEC * i), in tenths of a second
Backoff(i) == SLEEP_SEC_TENTHS * i

\* events of the API scenario: one that passes the filters and one that does not
ApiRows(sc) == {BaseRow(sc), [BaseRow(sc) EXCEPT !.root = R17]}

\* data = ... returned: pages += 1; events empty -> break, else the for loop starts
PageReturned ==
    /\ pages' = pages + 1
    /\ nread' = 0
    /\ pc' = IF chunks > 0 THEN "rows" ELSE "emit"

\* build_2025_quarters_fast: url = build_url(...); fetch_json(url) is entered
FetchJsonCall ==
    /\ pc = "fetch"
    /\ script = Fast
    /\ pc' = "try"
    /\ attempt' = 1
    /\ sleeps' = <<>>
    /\ UNCHANGED <<script, chunks, row, agg, hard, features, outfile, out_ids, runs,
                   accepted, nl_in, nl_out, quarter, written, pages, start_record, err, nread>>

\* fetch_json: the attempt succeeds, return json.loads(raw)
AttemptOk ==
    /\ pc = "try"
    /\ PageReturned
    /\ attempt' = 0
    /\ sleeps' = <<>>
    /\ UNCHANGED <<script, chunks, row, agg, hard, features, outfile, out_ids, runs,
                   accepted, nl_in, nl_out, quarter, written, start_record, err>>

\* fetch_json: the attempt raises one of HTTPError, URLError, TimeoutError,
\* JSONDecodeError, ValueError; the wait follows, then the next attempt or,
\* the range exhausted, raise RuntimeError, which nothing catches
AttemptFail ==
    /\ pc = "try"
    /\ sleeps' = Append(sleeps, Backoff(attempt))
    /\ IF attempt < MAX_RETRIES
       THEN /\ attempt' = attempt + 1
            /\ UNCHANGED <<pc, err>>
       ELSE /\ pc' = "crashed"
            /\ err' = "RuntimeError"
            /\ UNCHANGED attempt
    /\ UNCHANGED <<script, chunks, row, agg, hard, features, outfile, out_ids, runs,
                   accepted, nl_in, nl_out, quarter, written, pages, start_record, nread>>

\* fetch_json: the attempt raises an exception outside the except tuple
\* (http.client.IncompleteRead or ConnectionResetError inside r.read()); it propagates
AttemptEscape ==
    /\ pc = "try"
    /\ pc' = "crashed"
    /\ err' = "other"
    /\ UNCHANGED <<script, chunks, row, agg, hard, features, outfile, out_ids, runs,
                   accepted, nl_in, nl_out, quarter, written, pages, start_record,
                   attempt, sleeps, nread>>

\* build_2025_quarters: data = http_get_json(url) returns
HttpGetJsonOk ==
    /\ pc = "fetch"
    /\ script = Quarters
    /\ PageReturned
    /\ UNCHANGED <<script, chunks, row, agg, hard, features, outfile, out_ids, runs,
                   accepted, nl_in, nl_out, quarter, written, start_record, attempt,
                   sleeps, err>>

\* build_2025_quarters: http_get_json raises (one urlopen, no retry, no except)
HttpGetJsonRaise ==
    /\ pc = "fetch"
    /\ script = Quarters
    /\ pc' = "crashed"
    /\ err' = "other"
    /\ UNCHANGED <<script, chunks, row, agg, hard, features, outfile, out_ids, runs,
                   accepted, nl_in, nl_out, quarter, written, pages, start_record,
                   attempt, sleeps, nread>>

\* for e in events: the next event of the page
ReadEvent(r) ==
    /\ pc = "rows"
    /\ nread < MaxPageRows
    /\ nread' = nread + 1
    /\ row' = <<r>>
    /\ pc' = "row"
    /\ UNCHANGED <<script, chunks, agg, hard, features, outfile, out_ids, runs,
                   accepted, nl_in, nl_out, quarter, written, pages, start_record,
                   attempt, sleeps, err>>

\* the page loop that also writes the features collected so far after every page
EndPage_Flush ==
    /\ pc = "rows"
    /\ nread >= 1
    /\ chunks' = chunks - 1
    /\ start_record' = start_record + MAX_RECORDS
    /\ nread' = 0
    /\ pc' = IF PageGuard(script, pages) THEN "emit" ELSE "fetch"
    /\ outfile' = [exists |-> TRUE, features |-> SortFeatures(MakeFeatures(agg))]
    /\ UNCHANGED <<script, row, agg, hard, features, out_ids, runs,
                   accepted, nl_in, nl_out, quarter, written, pages, attempt, sleeps, err>>

\* the events of the page are exhausted: start_record += MAX_RECORDS, the
\* courtesy sleep, then the guard on pages
EndPage ==
    /\ pc = "rows"
    /\ nread >= 1
    /\ chunks' = chunks - 1
    /\ start_record' = start_record + MAX_RECORDS
    /\ nread' = 0
    /\ pc' = IF PageGuard(script, pages) THEN "emit" ELSE "fetch"
    /\ UNCHANGED <<script, row, agg, hard, features, outfile, out_ids, runs,
                   accepted, nl_in, nl_out, quarter, written, pages, attempt, sleeps, err>>

\* main: build_quarter has returned, the next quarter is built; its locals are
\* fresh, and outfile is from now on the file of the new quarter, not yet written
NextQuarter ==
    /\ pc = "done"
    /\ quarter < NumQuarters
    /\ quarter' = quarter + 1
    /\ pc' = "start"
    /\ chunks' = 0
    /\ row' = <<>>
    /\ agg' = <<>>
    /\ features' = <<>>
    /\ accepted' = <<>>
    /\ outfile' = NoFile
    /\ out_ids' = {}
    /\ pages' = 0
    /\ start_record' = 1
    /\ nread' = 0
    /\ UNCHANGED <<script, hard, runs, nl_in, nl_out, written, attempt, sleeps, err>>

\* main of an API script, quarter after quarter
InitApi == \E sc \in ApiScripts : InitRun(sc)

NextApi ==
    \/ \E n \in 0..MaxPages : ListChunks(n)
    \/ FetchJsonCall
    \/ AttemptOk
    \/ AttemptFail
    \/ AttemptEscape
    \/ HttpGetJsonOk
    \/ HttpGetJsonRaise
    \/ \E r \in ApiRows(script) : ReadEvent(r)
    \/ ProcessRow
    \/ EndPage
    \/ Emit
    \/ NextQuarter

\* the steps of one fetch: the call, and the end of an attempt
Fetching ==
    \/ FetchJsonCall
    \/ AttemptOk
    \/ AttemptFail
    \/ AttemptEscape
    \/ HttpGetJsonOk
    \/ HttpGetJsonRaise

\* urlopen is given timeout=120 and time.sleep returns: an attempt that has
\* started eventually returns or raises; the emission makes no call that can wait
SpecApi == InitApi /\ [][NextApi]_vars /\ WF_vars(Fetching) /\ WF_vars(Emit)

-----------------------------------------------------------------------------
(* Vocabulary of the properties *)

\* the orderings of a sequence
PermSeqs(s) ==
    {[i \in 1..Len(s) |-> s[p[i]]] : p \in Permutations(1..Len(s))}

\* the accepted records of the run that carry the merge key k, in arrival order
RecsOfKey(k) == SelectSeq(accepted, LAMBDA r : MergeKey(script, r) = k)

RECURSIVE SumLat(_)
SumLat(recs) == IF recs = <<>> THEN 0 ELSE Head(recs).lat + SumLat(Tail(recs))

RECURSIVE SumLon(_)
SumLon(recs) == IF recs = <<>> THEN 0 ELSE Head(recs).lon + SumLon(Tail(recs))

\* records a and b agree on date, category and normalized place
SameTriple(a, b) ==
    /\ a.date = b.date
    /\ a.root = b.root
    /\ norm_loc(a.place) = norm_loc(b.place)

\* feature f is the point of the (date, category, normalized place) of record r
PointOf(f, r) ==
    /\ f.date = r.date
    /\ f.event_root_code = r.root
    /\ norm_loc(f.location) = norm_loc(r.place)

\* the accumulators the output is built from, in the current state
Accs == IF TwoStage(script) /\ pc \in {"emit", "done"} THEN hard ELSE agg

\* a point as the claim on arrival order compares it
FullPoint(f) ==
    [ date |-> f.date, location |-> f.location, attack_type |-> f.attack_type,
      coordinates |-> f.coordinates, sources |-> f.sources,
      sources_count |-> f.sources_count ]

\* a point without what follows the arrival order (the displayed place, the order of the sources)
OrderFreePoint(f) ==
    [ date |-> f.date, attack_type |-> f.attack_type,
      event_root_code |-> f.event_root_code, coordinates |-> f.coordinates,
      sources |-> Range(f.sources), sources_count |-> f.sources_count ]

PointSet(fs, View(_)) == {View(fs[i]) : i \in 1..Len(fs)}

\* the first non-empty place name among records, "unknown" when there is none
RECURSIVE FirstPlace(_)
FirstPlace(recs) ==
    IF recs = <<>> THEN Unknown
    ELSE IF Head(recs).place # <<>> THEN Head(recs).place
    ELSE FirstPlace(Tail(recs))

Prefix(s, n) == SubSeq(s, 1, IF Len(s) < n THEN Len(s) ELSE n)

NoDuplicates(s) == \A i, j \in 1..Len(s) : s[i] = s[j] => i = j

-----------------------------------------------------------------------------
(* Properties *)

\* C1 (as stated): for every permutation of the accepted records, aggregation and
\* emission yield the same set of points: date, location, attack_type, coordinates,
\* sources list and sources_count.
C1_PermutationSamePoints ==
    pc = "done" =>
        \A p \in PermSeqs(accepted) :
            PointSet(EmitAll(script, p), FullPoint) = PointSet(features, FullPoint)

\* C1 (amended): for every permutation of the accepted records the emitted points
\* agree, as a set, on date, attack_type, event_root_code, coordinates,
\* sources_count and the set of sources; the displayed location and the order of
\* the sources list follow the arrival order.
C1_PermutationSameOrderFreePoints ==
    pc = "done" =>
        \A p \in PermSeqs(accepted) :
            PointSet(EmitAll(script, p), OrderFreePoint) = PointSet(features, OrderFreePoint)

\* C1 witness: a finished run that merged, into one key, two records with different
\* coordinates, place spellings and sources
C1_Witness ==
    /\ pc = "done"
    /\ \E i, j \in 1..Len(accepted) :
        /\ i < j
        /\ MergeKey(script, accepted[i]) = MergeKey(script, accepted[j])
        /\ accepted[i].lat # accepted[j].lat
        /\ accepted[i].place # accepted[j].place
        /\ accepted[i].url # accepted[j].url

\* C2: the accumulator of every key holds the sum of the latitudes, the sum of the
\* longitudes and the number of the accepted records of that key, each counted once;
\* after emission the single point of the key has coordinates [sum(lon)/N, sum(lat)/N].
C2_Centroid ==
    /\ \A i \in 1..Len(Accs) :
        LET rs == RecsOfKey(Accs[i].key) IN
        /\ Accs[i].n = Len(rs)
        /\ Accs[i].lat_sum = SumLat(rs)
        /\ Accs[i].lon_sum = SumLon(rs)
    /\ pc = "done" =>
        \A k \in 1..Len(accepted) :
            LET rs == RecsOfKey(MergeKey(script, accepted[k]))
                pts == {i \in 1..Len(features) : PointOf(features[i], accepted[k])}
            IN /\ Cardinality(pts) = 1
               /\ \A i \in pts :
                    features[i].coordinates =
                        << Div(SumLon(rs), Len(rs)), Div(SumLat(rs), Len(rs)) >>

\* C2 witness: a point emitted for a key that merged records with different coordinates
C2_Witness ==
    /\ pc = "done"
    /\ \E i, j \in 1..Len(accepted) :
        /\ MergeKey(script, accepted[i]) = MergeKey(script, accepted[j])
        /\ accepted[i].lat # accepted[j].lat
        /\ accepted[i].lon # accepted[j].lon
    /\ \E i \in 1..Len(features) : features[i].coordinates[2][2] > 1

\* C3: in every state the sources list of every accumulator is the first
\* min(k, MAX_SOURCES_PER_EVENT) of the k distinct non-empty URLs of the records
\* merged into its key, in first-seen order; it has at most MAX_SOURCES_PER_EVENT
\* entries and no entry twice.
C3_SourcesFirstSeenCapped ==
    \A d \in {agg, hard} : \A i \in 1..Len(d) :
        /\ d[i].sources = Prefix(FirstSeen(<<>>, RecsOfKey(d[i].key)), MAX_SOURCES_PER_EVENT)
        /\ Len(d[i].sources) <= MAX_SOURCES_PER_EVENT
        /\ NoDuplicates(d[i].sources)

\* C3 witness: more than MAX_SOURCES_PER_EVENT distinct URLs were merged into one key
C3_Witness ==
    \E i \in 1..Len(agg) :
        /\ Len(FirstSeen(<<>>, RecsOfKey(agg[i].key))) > MAX_SOURCES_PER_EVENT
        /\ Len(agg[i].sources) = MAX_SOURCES_PER_EVENT

\* C4 (as stated): a run appends to the previously emitted output: when it writes
\* the file, the record ids the file covers are those it covered before together
\* with those of the records fetched by the run.
C4_RerunAppends ==
    [][ (pc # "done" /\ pc' = "done") =>
            out_ids' = out_ids \cup {accepted[i].gid : i \in 1..Len(accepted)} ]_vars

\* C5: a row whose root code is not a key of ROOT_CODE_LABEL leaves agg as it is,
\* and the event_root_code of every accumulator and of every emitted point is a key
\* of the table, its attack_type being the label of that code.
C5_AllowList ==
    [][ /\ (pc = "row" /\ ~InTable(Strip(row[1].root))) => (agg' = agg /\ hard' = hard)
        /\ \A d \in {agg', hard', features', outfile'.features} : \A i \in 1..Len(d) :
            /\ InTable(d[i].event_root_code)
            /\ d[i].attack_type = ROOT_CODE_LABEL[d[i].event_root_code] ]_vars

\* C5 witness: a row with a root code outside the table, valid in every other field,
\* is about to be processed while agg holds accumulators
C5_Witness ==
    /\ pc = "row"
    /\ ~InTable(Strip(row[1].root))
    /\ Accept(script, [row[1] EXCEPT !.root = R18])
    /\ agg # <<>>

\* C6 (as stated): the result of norm_loc is a fixed point of norm_loc.
C6_NormLocIdempotent ==
    nl_out.done => norm_loc(nl_out.val) = nl_out.val

\* C7: two accepted records have the same merge key exactly when they agree on date,
\* category and normalized place; every accumulator stands for one such triple and
\* counts exactly its records; the output holds exactly one point per triple.
C7_MergeIffSameTriple ==
    /\ \A i, j \in 1..Len(accepted) :
        MergeKey(script, accepted[i]) = MergeKey(script, accepted[j])
            <=> SameTriple(accepted[i], accepted[j])
    /\ \A k \in 1..Len(accepted) :
        Cardinality({i \in 1..Len(Accs) :
            /\ Accs[i].date = accepted[k].date
            /\ Accs[i].event_root_code = accepted[k].root
            /\ Accs[i].loc_norm = norm_loc(accepted[k].place)
            /\ Accs[i].n = Cardinality({j \in 1..Len(accepted) :
                                SameTriple(accepted[j], accepted[k])}) }) = 1
    /\ pc = "done" =>
        /\ \A k \in 1..Len(accepted) :
            Cardinality({i \in 1..Len(features) : PointOf(features[i], accepted[k])}) = 1
        /\ \A i \in 1..Len(features) :
            \E k \in 1..Len(accepted) : PointOf(features[i], accepted[k])

\* C7 witness: a finished run in which two records whose place names differ only in
\* letter case and whitespace went into one point, next to a point of another key
C7_Witness ==
    /\ pc = "done"
    /\ Len(features) = 2
    /\ \E i, j \in 1..Len(accepted) :
        /\ accepted[i].place # accepted[j].place
        /\ Lower(accepted[i].place) # Lower(accepted[j].place)
        /\ SameTriple(accepted[i], accepted[j])
    /\ \E i, j \in 1..Len(accepted) : ~SameTriple(accepted[i], accepted[j])

\* of two adjacent features the first has the later date, or the same date and at
\* least as many sources
Sorted(fs) ==
    \A i \in 1..(Len(fs) - 1) :
        \/ StrLess(fs[i + 1].date, fs[i].date)
        \/ fs[i].date = fs[i + 1].date /\ fs[i].sources_count >= fs[i + 1].sources_count

\* C8: the emitted feature list, and the list in the file, is sorted descending by
\* date and, among equal dates, descending by sources_count.
C8_SortedOutput ==
    /\ Sorted(features)
    /\ Sorted(outfile.features)

\* C8 witness: three points were emitted in an order other than that of the
\* accumulators, two of them of one date with different numbers of sources
C8_Witness ==
    /\ pc = "done"
    /\ Len(features) = 3
    /\ features # MakeFeatures(Accs)
    /\ \E i \in 1..2 :
        /\ features[i].date = features[i + 1].date
        /\ features[i].sources_count > features[i + 1].sources_count
    /\ \E i \in 1..2 : features[i].date # features[i + 1].date

\* C9 (as stated): for every accumulator lat_sum / n lies in [-90, 90] and
\* lon_sum / n in [-180, 180].
C9_CentroidInRange ==
    \A d \in {agg, hard} : \A i \in 1..Len(d) :
        /\ 0 - 90 * d[i].n <= d[i].lat_sum /\ d[i].lat_sum <= 90 * d[i].n
        /\ 0 - 180 * d[i].n <= d[i].lon_sum /\ d[i].lon_sum <= 180 * d[i].n

\* C10 (as stated): the location of an accumulator is the first non-empty place name
\* among the records merged into it, in arrival order, and "unknown" only while
\* every merged record had an empty place name.
C10_FirstNonEmptyPlace ==
    \A i \in 1..Len(agg) :
        agg[i].location = FirstPlace(RecsOfKey(agg[i].key))

-----------------------------------------------------------------------------
(* C11: the two passes of update_attacks_2026 against one pass on the coarse key *)

\* the coarse key (date, category label, normalized place) of a record
CoarseKeyOfRecord(rec) ==
    rec.date \o <<"|">> \o ROOT_CODE_LABEL[rec.root] \o <<"|">> \o norm_loc(rec.place)

\* the coarse key of an accumulator
CoarseKeyOfAcc(ev) == ev.date \o <<"|">> \o ev.attack_type \o <<"|">> \o ev.loc_norm

\* one pass over recs that keys the accumulators directly on the coarse key
RECURSIVE SinglePass(_, _)
SinglePass(d, recs) ==
    IF recs = <<>> THEN d
    ELSE LET rec == Head(recs)
             at == {i \in 1..Len(d) : CoarseKeyOfAcc(d[i]) = CoarseKeyOfRecord(rec)}
         IN IF at = {} THEN SinglePass(Append(d, NewAcc(Update, rec)), Tail(recs))
            ELSE LET i == CHOOSE j \in at : TRUE IN
                 SinglePass([d EXCEPT ![i] = MergeInto(Update, d[i], rec)], Tail(recs))

\* what the claim compares of an accumulator
C11_View(ev) ==
    [ date |-> ev.date, attack_type |-> ev.attack_type, loc_norm |-> ev.loc_norm,
      n |-> ev.n, lat_sum |-> ev.lat_sum, lon_sum |-> ev.lon_sum,
      sources |-> ev.sources, event_codes |-> ev.event_codes,
      ids |-> Cardinality(ev.gdelt_ids), location |-> ev.location ]

-----------------------------------------------------------------------------
(* C12: date extraction *)

\* s is made of exactly n digits
DigitString(s, n) == Len(s) = n /\ Chars(s) \subseteq Digits

\* d has the form dddd-dd-dd, d a digit
IsoDateForm(d) ==
    /\ Len(d) = 10
    /\ d[5] = "-" /\ d[8] = "-"
    /\ \A i \in {1, 2, 3, 4, 6, 7, 9, 10} : d[i] \in Digits

\* C12: no written point has a date that is not of the form dddd-dd-dd, a day field
\* that is not made of digits giving no date and its record being discarded
C12_OutputDatesWellFormed ==
    outfile.exists => \A i \in 1..Len(outfile.features) : IsoDateForm(outfile.features[i].date)

\* C12, the 14-digit form: a day field made of 14 digits is given a date
C12_FourteenDigitsAccepted ==
    (pc = "row" /\ DigitString(Strip(row[1].day), 14)) =>
        yyyymmdd_to_iso(script, Strip(row[1].day)) # <<>>

-----------------------------------------------------------------------------
(* C13: a chunk whose fetch fails *)

\* C13: a chunk whose fetch fails, the retries of fetch_json exhausted included, is
\* skipped and the run goes on to the remaining chunks and to the emission: the
\* process is never ended by the RuntimeError that fetch_json raises after
\* MAX_RETRIES failed attempts.
C13_ExhaustedRetriesSkipped == ~(pc = "crashed" /\ err = "RuntimeError")

-----------------------------------------------------------------------------
(* C14: when the output is written *)

\* C14 as stated, the run being the process: when the process fails (a fetch
\* raising) no output file, partial or complete, has been written by it.
C14_NoOutputBeforeFailure == pc = "crashed" => written = <<>>

\* C14, per pass (one build_quarter call, which owns one output file): the file of
\* the pass does not exist before the pass is done, a failed pass included; it is
\* written by the single step that ends the pass, after the page loop has been
\* left, and holds the sorted features of all the accumulators; the process has
\* then written one file for each quarter built so far, each once.
C14_PassWritesOnceAtEnd ==
    /\ [](pc # "done" => ~outfile.exists)
    /\ [](pc = "done" =>
            /\ outfile = [exists |-> TRUE, features |-> SortFeatures(MakeFeatures(agg))]
            /\ (chunks = 0 \/ PageGuard(script, pages)))
    /\ [](written = [i \in 1..(IF pc = "done" THEN quarter ELSE quarter - 1) |-> i])
    /\ [][outfile' # outfile =>
            \/ pc = "emit" /\ pc' = "done"
            \/ pc = "done" /\ pc' = "start" /\ quarter' = quarter + 1]_vars

\* a later quarter fails on a fetch after records were aggregated: nothing of that
\* quarter is on disk, the file of the first quarter is
C14_Witness ==
    /\ pc = "crashed"
    /\ quarter = 2
    /\ agg # <<>>
    /\ ~outfile.exists
    /\ written = <<1>>

-----------------------------------------------------------------------------
(* C15: malformed records *)

\* the day field is not a date: neither 8 nor 14 digits
BadDate(s) == ~(DigitString(s, 8) \/ DigitString(s, 14))

\* a malformed row as the claim lists them: too short, bad date, unmapped
\* category, or a coordinate that does not parse
Malformed(sc, r) ==
    \/ IsTsv(sc) /\ ~r.len_ok
    \/ BadDate(Strip(r.day))
    \/ ~InTable(Strip(r.root))
    \/ ~r.lat.numeric
    \/ ~r.lon.numeric

\* C15: processing a malformed row leaves the accumulator map exactly as it was
\* and goes on with the next row.
C15_MalformedDropped ==
    [][(pc = "row" /\ Malformed(script, row[1])) => (agg' = agg /\ pc' = "rows")]_vars

-----------------------------------------------------------------------------
(* C16: the retries of fetch_json *)

\* the waits after failed attempts 1..n
WaitsUpTo(n) == [i \in 1..n |-> SLEEP_SEC_TENTHS * i]

\* the step ends an attempt of fetch_json without returning a result
AttemptFailsInStep == pc = "try" /\ pc' \notin {"rows", "emit"}

\* C16 as stated: after every failed attempt, the last one included, fetch_json
\* waits SLEEP_SEC * i before going on.
C16_EveryFailedAttemptWaits ==
    [][AttemptFailsInStep => sleeps' = Append(sleeps, SLEEP_SEC_TENTHS * attempt)]_vars

\* C16, amended: fetch_json makes at most MAX_RETRIES attempts; attempt i is made
\* after exactly the waits SLEEP_SEC * 1 .. SLEEP_SEC * (i - 1); a result is returned
\* by the first attempt that succeeds and no attempt follows it; an attempt that
\* fails with an exception of the except tuple is followed by the wait
\* SLEEP_SEC * i, the last one included; RuntimeError ends the call exactly when
\* MAX_RETRIES attempts failed that way; an exception outside the tuple ends the
\* call at once, without a wait; and every call ends.
C16_RetryDiscipline ==
    /\ [](attempt \in 0..MAX_RETRIES)
    /\ [](pc = "try" => (attempt >= 1 /\ sleeps = WaitsUpTo(attempt - 1)))
    /\ [](err = "RuntimeError" <=> (pc = "crashed" /\ sleeps = WaitsUpTo(MAX_RETRIES)))
    /\ [][(pc = "try" /\ attempt' # attempt) =>
            \/ attempt' = attempt + 1 /\ sleeps' = WaitsUpTo(attempt) /\ pc' = "try"
            \/ attempt' = 0 /\ pc' \in {"rows", "emit"} /\ pages' = pages + 1]_vars
    /\ [][(AttemptFailsInStep /\ err' # "other") => sleeps' = WaitsUpTo(attempt)]_vars
    /\ [][(AttemptFailsInStep /\ err' = "other") => (sleeps' = sleeps /\ pc' = "crashed")]_vars
    /\ [](pc = "try" => <>(pc # "try"))

\* the sixth attempt has failed and been waited for: RuntimeError
C16_Witness ==
    /\ pc = "crashed"
    /\ err = "RuntimeError"
    /\ attempt = MAX_RETRIES
    /\ Len(sleeps) = MAX_RETRIES
    /\ sleeps[MAX_RETRIES] = SLEEP_SEC_TENTHS * MAX_RETRIES

-----------------------------------------------------------------------------
(* C17: the page loop of build_quarter *)

\* room for the steps inside one iteration of the page loop
IterationSpan == 2 * MaxPageRows + MAX_RETRIES + 3

\* steps the current call of build_quarter can still take, at most
PassMeasure ==
    LET left == PageLimit(script) + 2 - pages IN
    CASE pc = "start" -> (PageLimit(script) + 3) * IterationSpan
      [] pc = "fetch" -> left * IterationSpan + IterationSpan - 1
      [] pc = "try"   -> left * IterationSpan + IterationSpan - 1 - attempt
      [] pc = "rows"  -> (left + 1) * IterationSpan + 2 * (MaxPageRows - nread) + 1
      [] pc = "row"   -> (left + 1) * IterationSpan + 2 * (MaxPageRows - nread) + 2
      [] pc = "emit"  -> 1
      [] OTHER        -> 0

\* steps the process can still take, at most
Measure ==
    (NumQuarters - quarter) * ((PageLimit(script) + 4) * IterationSpan) + PassMeasure

\* C17: page p is requested with startrecord = 1 + MAX_RECORDS * (p - 1); an empty
\* page ends the loop and a page with events is processed; the loop is otherwise
\* left only by the guard, after the page that makes pages = limit + 1, so never
\* more than limit + 1 pages are fetched; once the loop is left the features of
\* all the accumulators are written; and every step of the process lowers a
\* measure that is never negative, so the loop and the process terminate.
C17_PaginationStops ==
    /\ [](pc \in {"fetch", "try"} => start_record = 1 + MAX_RECORDS * pages)
    /\ [](pages <= PageLimit(script) + 1)
    /\ [][(pc \in {"fetch", "try"} /\ pages' = pages + 1) =>
            /\ start_record' = 1 + MAX_RECORDS * (pages' - 1)
            /\ pc' = (IF chunks = 0 THEN "emit" ELSE "rows")]_vars
    /\ [][(pc = "rows" /\ pc' = "fetch") =>
            (pages <= PageLimit(script) /\ start_record' = start_record + MAX_RECORDS)]_vars
    /\ [][(pc = "rows" /\ pc' = "emit") => pages = PageLimit(script) + 1]_vars
    /\ [][(pc # "emit" /\ pc' = "emit") =>
            \/ pc \in {"fetch", "try"} /\ chunks = 0
            \/ pc = "rows" /\ nread >= 1]_vars
    /\ [](pc = "emit" => <>(pc = "done"))
    /\ [](pc = "done" =>
            outfile = [exists |-> TRUE, features |-> SortFeatures(MakeFeatures(agg))])
    /\ [](Measure >= 0)
    /\ [][Measure' < Measure]_vars

\* build_2025_quarters_fast left the loop by the guard while the API had more
\* pages to serve, and wrote the points collected
C17_Witness ==
    /\ pc = "done"
    /\ pages = PageLimit(script) + 1
    /\ chunks > 0
    /\ outfile.exists
    /\ outfile.features # <<>>

=============================================================================
